---- MODULE Spec2Model ----
(***************************************************************************)
(* Dynamic greenhouse-gas budget for the German building stock.            *)
(*                                                                         *)
(* The static budget scripts (calculations_year_by_year.py and             *)
(* "parallel coordinates.py") and the dynamic budget scripts               *)
(* (dynamic_ee_budget.py, dynamic_oe_budget.py) as state machines.         *)
(*                                                                         *)
(* Numbers.  The scripts compute in binary floating point.  The model      *)
(* computes in exact arithmetic on the values n/d * 2^t * 5^f (rounding    *)
(* error is abstracted away, so an equality of the model is an equality    *)
(* "up to floating-point tolerance" of the code), and keeps what is not a  *)
(* matter of rounding: a division by zero raises ZeroDivisionError between *)
(* Python floats and yields inf or nan between numpy float64 values.       *)
(***************************************************************************)
EXTENDS Integers, Sequences, FiniteSets, TLC

(***************************************************************************)
(* Exact numbers: [k, n, d, t, f] with k = "fin" stands for                *)
(* n/d * 2^t * 5^f in the one canonical form (n/d in lowest terms, d > 0,  *)
(* n and d coprime to 10; zero is 0/1 * 2^0 * 5^0), so that equal values   *)
(* are equal records.  k = "inf" (n = 1 or -1) and k = "nan" are the IEEE  *)
(* values numpy produces.                                                  *)
(***************************************************************************)
Abs(x) == IF x < 0 THEN -x ELSE x

RECURSIVE GCD(_, _)
GCD(p, q) == IF q = 0 THEN p ELSE GCD(q, p % q)

RECURSIVE Pow(_, _)
Pow(base, k) == IF k = 0 THEN 1 ELSE base * Pow(base, k - 1)

Fin(n, d, t, f) == [k |-> "fin", n |-> n, d |-> d, t |-> t, f |-> f]
Zero == Fin(0, 1, 0, 0)
Inf(s) == [k |-> "inf", n |-> s, d |-> 1, t |-> 0, f |-> 0]
NaN == [k |-> "nan", n |-> 0, d |-> 1, t |-> 0, f |-> 0]

\* the canonical form of n/d * 2^t * 5^f, n # 0, d > 0
RECURSIVE Canon(_, _, _, _)
Canon(n, d, t, f) ==
    IF n % 2 = 0 THEN Canon(n \div 2, d, t + 1, f)
    ELSE IF n % 5 = 0 THEN Canon(n \div 5, d, t, f + 1)
    ELSE IF d % 2 = 0 THEN Canon(n, d \div 2, t - 1, f)
    ELSE IF d % 5 = 0 THEN Canon(n, d \div 5, t, f - 1)
    ELSE Fin(n, d, t, f)

\* n/d * 2^t * 5^f, d # 0
Norm(n, d, t, f) ==
    IF n = 0 THEN Zero
    ELSE LET s == IF d < 0 THEN -1 ELSE 1
             g == GCD(Abs(n), Abs(d))
         IN  Canon(s * (n \div g), s * (d \div g), t, f)

Num(i) == Norm(i, 1, 0, 0)
Q(n, d) == Norm(n, d, 0, 0)
Sci(n, e) == Norm(n, 1, e, e)

IsFin(x) == x.k = "fin"
IsZero(x) == x.k = "fin" /\ x.n = 0
Sign(x) == IF x.k = "nan" THEN 0 ELSE IF x.n > 0 THEN 1 ELSE IF x.n < 0 THEN -1 ELSE 0

Min(p, q) == IF p < q THEN p ELSE q

Neg(x) == IF x.k = "nan" THEN NaN ELSE [x EXCEPT !.n = -x.n]

Add(x, y) ==
    IF x.k = "nan" \/ y.k = "nan" THEN NaN
    ELSE IF x.k = "inf" /\ y.k = "inf" THEN (IF x.n = y.n THEN x ELSE NaN)
    ELSE IF x.k = "inf" THEN x
    ELSE IF y.k = "inf" THEN y
    ELSE IF x.n = 0 THEN y
    ELSE IF y.n = 0 THEN x
    ELSE LET t == Min(x.t, y.t)
             f == Min(x.f, y.f)
             xn == x.n * Pow(2, x.t - t) * Pow(5, x.f - f)
             yn == y.n * Pow(2, y.t - t) * Pow(5, y.f - f)
             g == GCD(x.d, y.d)
         IN  Norm(xn * (y.d \div g) + yn * (x.d \div g), (x.d \div g) * y.d, t, f)

Sub(x, y) == Add(x, Neg(y))

Mul(x, y) ==
    IF x.k = "nan" \/ y.k = "nan" THEN NaN
    ELSE IF x.k = "inf" \/ y.k = "inf"
         THEN (IF Sign(x) * Sign(y) = 0 THEN NaN ELSE Inf(Sign(x) * Sign(y)))
    ELSE IF x.n = 0 \/ y.n = 0 THEN Zero
    ELSE LET g1 == GCD(Abs(x.n), y.d)
             g2 == GCD(Abs(y.n), x.d)
         IN  Norm((x.n \div g1) * (y.n \div g2), (x.d \div g2) * (y.d \div g1),
                  x.t + y.t, x.f + y.f)

\* 1/y for a finite y # 0
Recip(y) == IF y.n < 0 THEN Fin(-y.d, -y.n, -y.t, -y.f) ELSE Fin(y.d, y.n, -y.t, -y.f)

\* x / y where the division is defined without IEEE special cases
Quot(x, y) == Mul(x, Recip(y))

\* x / y between numpy float64 values: IEEE 754, no exception
NpDiv(x, y) ==
    IF x.k = "nan" \/ y.k = "nan" THEN NaN
    ELSE IF y.k = "inf" THEN (IF x.k = "inf" THEN NaN ELSE Zero)
    ELSE IF x.k = "inf" THEN Inf(Sign(x) * (IF Sign(y) < 0 THEN -1 ELSE 1))
    ELSE IF y.n = 0 THEN (IF x.n = 0 THEN NaN ELSE Inf(Sign(x)))
    ELSE Quot(x, y)

Less(x, y) == Sign(Sub(x, y)) < 0

(***************************************************************************)
(* Bounds of the model (the inputs the scripts are run on).                *)
(***************************************************************************)
\* the latest year of GHG neutrality tried is StartYear + MaxHorizon
MaxHorizon == 2
\* the global budgets tried are Deduction + 887 * k Gt CO2, k in 0..MaxBudget
MaxBudget == 1
\* calls of one run of SpecCalls
MaxCalls == 3

(***************************************************************************)
(* Program constants.                                                      *)
(***************************************************************************)
\* first year of the horizon: range(2025, year_GHG_neutrality + 1)
StartYear == 2025
\* year of the area data: years_pre = 2025 - 2021
DataYear == 2021
\* emissions from 2020 to 2024 deducted from the global budget, Gt CO2
Deduction == 185
\* life cycle the embodied emissions are distributed over, years
Lifetime == 50
\* share of CO2 in the German greenhouse-gas emissions
CO2Share == Q(887, 1000)
\* kg per Gt
KgPerGt == Sci(1, 12)

\* fault model: the pre-correction counts the year 2025 too
years_pre_Inclusive == StartYear - DataYear + 1

years_pre == StartYear - DataYear

(***************************************************************************)
(* The inputs.  Shares, rates and areas are drawn from small sets that     *)
(* hold the valid values and, for the error cases, a share above 1, a      *)
(* negative rate and demolition rates of 100 % and 200 %.  The rates are   *)
(* multiples of 10 % so that the areas stay decimal numbers.               *)
(***************************************************************************)
GlobalBudgets == {Deduction + 887 * k : k \in 0..MaxBudget}
FnValues == {Q(1, 2), Num(2)}
FbValues == {Q(1, 2), Num(1)}
FeValues == {Q(1, 4), Q(1, 2)}
NewRates == {Num(-1), Zero, Q(1, 10), Q(1, 5)}
RenovationRates == {Zero, Q(1, 10)}
DemolitionRates == {Zero, Q(1, 10), Num(1), Num(2)}
NeutralityYears == (StartYear - 2)..(StartYear + MaxHorizon)
InitialAreas == {Sci(1, 9), Sci(3, 9)}
Functions == {"calculate_emissions_year_by_year", "calculate_emissions"}

VARIABLES
    fn,                  \* the function that runs
    npArgs,              \* the rates are numpy float64 (the sweep's np.arange)
    Ae_initial, Fb, Fe, Fo,                  \* module globals
    GB, Fn, year_GHG_neutrality, rn, rr, rd, \* arguments (globals of year_by_year)
    pc,                  \* "pre", "years", "returned", "reported", "raised"
    pre_i,               \* iterations of the pre-correction loop done
    Ae_temp, Ae_current, year,
    share_operational, share_embodied,
    Ae_list, Anew_list, op_em_list, emb_em_list,
    average_op_em, average_emb_em,
    history,             \* the calls that ended, oldest first
    scenarios,           \* the sweep: the combinations still to run, the current one first
    rows,                \* the sweep: the rows appended so far
    \* the dynamic budget scripts
    script,              \* "dynamic_ee_budget" or "dynamic_oe_budget"
    dpc,                 \* "off", "setup", "solve", "verify", "series", "done", "raised"
    T_min, T_max, x_base, I_constant,
    f_coef, g_coef, w,   \* the fitted shape functions and the weight
    Z_2025, Z_2045, I_Z, factor_2025_2045,
    a, b, ratio_2045_2025, I_dynamic, dyn_vals

globals == <<Ae_initial, Fb, Fe, Fo>>
args == <<fn, npArgs, GB, Fn, year_GHG_neutrality, rn, rr, rd>>
lists == <<Ae_list, Anew_list, op_em_list, emb_em_list>>
averages == <<average_op_em, average_emb_em>>
locals == <<pre_i, Ae_temp, Ae_current, year, share_operational, share_embodied>>
sweep == <<scenarios, rows>>
static == <<globals, args, pc, locals, lists, averages, history, sweep>>
config == <<script, T_min, T_max, x_base, f_coef, g_coef, w, factor_2025_2045>>
setup == <<I_constant, Z_2025, Z_2045, I_Z>>
solved == <<a, b>>
verified == <<ratio_2045_2025, I_dynamic>>
dyn == <<config, dpc, setup, solved, verified, dyn_vals>>
vars == <<static, dyn>>

(***************************************************************************)
(* Budget Allocator.                                                       *)
(***************************************************************************)
\* fault model: the CO2 budget is multiplied by the CO2 share instead of divided
GB_GHG_Multiplied(gb) == Mul(Sub(Num(gb), Num(Deduction)), CO2Share)

\* GB = GB - 185; GB_GHG = GB / 0.887
GB_GHG(gb) == Quot(Sub(Num(gb), Num(Deduction)), CO2Share)

\* GB_GHG * Fn * Fb * F * 1e12, multiplied left to right
CategoryBudget(gb, fnat, fb, f) == Mul(Mul(Mul(Mul(GB_GHG(gb), fnat), fb), f), KgPerGt)

(***************************************************************************)
(* Division as the interpreter does it: between Python floats a zero       *)
(* divisor raises ZeroDivisionError; once an operand is a numpy float64    *)
(* the quotient is inf or nan.                                             *)
(***************************************************************************)
Raises(y, np) == ~np /\ IsZero(y)
Div(x, y, np) == IF np \/ ~IsFin(x) \/ ~IsFin(y) THEN NpDiv(x, y) ELSE Quot(x, y)

(***************************************************************************)
(* Area Evolution Simulator and Static Intensity Calculator.               *)
(***************************************************************************)
\* fault model: the pre-correction updates the global area in place
GlobalArea_Aliased(ae_initial, ae_temp) == ae_temp

\* Ae_temp = Ae_initial binds the local name to a float; Ae_temp += ... rebinds
\* the local and leaves the global as it was
GlobalArea(ae_initial, ae_temp) == ae_initial

\* fault model: the demolition rate is applied to the area after construction
PreCorrectionStep_PostUpdate(Ae, r_n, r_d) ==
    Sub(Add(Ae, Mul(r_n, Ae)), Mul(r_d, Add(Ae, Mul(r_n, Ae))))

\* pre_An = rn * Ae_temp; pre_Ad = rd * Ae_temp; Ae_temp += pre_An - pre_Ad
PreCorrectionStep(Ae, r_n, r_d) == Add(Ae, Sub(Mul(r_n, Ae), Mul(r_d, Ae)))

An(Ae, r_n) == Mul(r_n, Ae)

\* fault model: the demolished area is counted twice
Ad_Doubled(Ae, r_d) == Mul(Num(2), Mul(r_d, Ae))

Ad(Ae, r_d) == Mul(r_d, Ae)
Ar(Ae, r_r) == Mul(r_r, Ae)

\* fault model: the demolished area is added instead of subtracted
UpdatedArea_SignSlip(Ae, r_n, r_d) == Add(Ae, Add(An(Ae, r_n), Ad(Ae, r_d)))

\* fault model: the new construction is taken off the area
UpdatedArea_NewRemoved(Ae, r_n, r_d) == Sub(Ae, Sub(An(Ae, r_n), Ad(Ae, r_d)))

\* Ae_current += An - Ad
UpdatedArea(Ae, r_n, r_d) == Add(Ae, Sub(An(Ae, r_n), Ad(Ae, r_d)))

\* fault model: the rates are applied after the new construction was added
A_new_PostUpdate(Ae, r_n, r_r) ==
    Add(An(Add(Ae, An(Ae, r_n)), r_n), Ar(Add(Ae, An(Ae, r_n)), r_r))

\* A_new = An + Ar
A_new(Ae, r_n, r_r) == Add(An(Ae, r_n), Ar(Ae, r_r))

\* year_GHG_neutrality + 1 - 2025
HorizonLength(y) == y + 1 - StartYear

\* fault model: the operational budget is not spread over the horizon
E_op_NoHorizon(share, y, area, np) == Div(share, area, np)

\* E_op = share_operational / (year_GHG_neutrality + 1 - 2025) / Ae_current
E_op(share, y, area, np) == Div(Quot(share, Num(HorizonLength(y))), area, np)

\* fault model: the embodied intensity is not distributed over the life cycle
E_emb_NoLifetime(share, y, anew, np) == Div(Quot(share, Num(HorizonLength(y))), anew, np)

\* E_emb = share_embodied / (year_GHG_neutrality + 1 - 2025) / A_new / 50
E_emb(share, y, anew, np) ==
    Div(Div(Quot(share, Num(HorizonLength(y))), anew, np), Num(Lifetime), np)

RECURSIVE Sum(_)
Sum(s) == IF s = <<>> THEN Zero ELSE Add(Sum(SubSeq(s, 1, Len(s) - 1)), s[Len(s)])

\* total / (year_GHG_neutrality + 1 - 2025), for a horizon length # 0
Average(s, y) == Div(Sum(s), Num(HorizonLength(y)), FALSE)

Locals0(ae) ==
    /\ pre_i = 0
    /\ Ae_temp = ae
    /\ Ae_current = Zero
    /\ year = StartYear
    /\ share_operational = Zero
    /\ share_embodied = Zero
    /\ Ae_list = <<>>
    /\ Anew_list = <<>>
    /\ op_em_list = <<>>
    /\ emb_em_list = <<>>
    /\ average_op_em = Zero
    /\ average_emb_em = Zero

\* no sweep is running
SweepOff ==
    /\ scenarios = <<>>
    /\ rows = <<>>

\* the dynamic budget script has not been started
DynOff ==
    /\ script = "dynamic_ee_budget"
    /\ dpc = "off"
    /\ T_min = StartYear
    /\ T_max = StartYear
    /\ x_base = Zero
    /\ I_constant = Zero
    /\ f_coef = <<0, 0, 0, 0>>
    /\ g_coef = <<0, 0, 0, 0>>
    /\ w = Zero
    /\ Z_2025 = Zero
    /\ Z_2045 = Zero
    /\ I_Z = Zero
    /\ factor_2025_2045 = Zero
    /\ a = Zero
    /\ b = Zero
    /\ ratio_2045_2025 = Zero
    /\ I_dynamic = Zero
    /\ dyn_vals = <<>>

Init ==
    /\ fn \in Functions
    /\ npArgs \in (IF fn = "calculate_emissions" THEN BOOLEAN ELSE {FALSE})
    /\ Ae_initial \in InitialAreas
    /\ Fb \in FbValues
    /\ Fe \in FeValues
    /\ Fo = Sub(Num(1), Fe)
    /\ GB \in GlobalBudgets
    /\ Fn \in FnValues
    /\ year_GHG_neutrality \in NeutralityYears
    /\ rn \in NewRates
    /\ rr \in RenovationRates
    /\ rd \in DemolitionRates
    /\ pc = "pre"
    /\ Locals0(Ae_initial)
    /\ history = <<>>
    /\ SweepOff
    /\ DynOff

\* for _ in range(years_pre): one iteration of the pre-correction
PreCorrection ==
    /\ pc = "pre"
    /\ pre_i < years_pre
    /\ Ae_temp' = PreCorrectionStep(Ae_temp, rn, rd)
    /\ Ae_initial' = GlobalArea(Ae_initial, Ae_temp')
    /\ pre_i' = pre_i + 1
    /\ UNCHANGED <<Fb, Fe, Fo, args, pc, Ae_current, year, share_operational,
                   share_embodied, lists, averages, history, sweep, dyn>>

\* Ae_2025 = Ae_temp ... share_embodied = ...: the horizon loop is set up
StartHorizon ==
    /\ pc = "pre"
    /\ pre_i = years_pre
    /\ Ae_current' = Ae_temp
    /\ year' = StartYear
    /\ Ae_list' = <<>>
    /\ Anew_list' = <<>>
    /\ op_em_list' = <<>>
    /\ emb_em_list' = <<>>
    /\ share_operational' = CategoryBudget(GB, Fn, Fb, Fo)
    /\ share_embodied' = CategoryBudget(GB, Fn, Fb, Fe)
    /\ pc' = "years"
    /\ UNCHANGED <<globals, args, pre_i, Ae_temp, averages, history, sweep, dyn>>

\* for year in years: one year of the horizon; a ZeroDivisionError ends the call
HorizonYear ==
    /\ pc = "years"
    /\ year <= year_GHG_neutrality
    /\ LET area == UpdatedArea(Ae_current, rn, rd)
           anew == A_new(Ae_current, rn, rr)
       IN  IF Raises(area, npArgs) \/ Raises(anew, npArgs)
           THEN /\ pc' = "raised"
                /\ Ae_current' = area
                /\ UNCHANGED <<year, lists>>
           ELSE /\ Ae_current' = area
                /\ Ae_list' = Append(Ae_list, area)
                /\ Anew_list' = Append(Anew_list, anew)
                /\ op_em_list' =
                     Append(op_em_list,
                            E_op(share_operational, year_GHG_neutrality, area, npArgs))
                /\ emb_em_list' =
                     Append(emb_em_list,
                            E_emb(share_embodied, year_GHG_neutrality, anew, npArgs))
                /\ year' = year + 1
                /\ pc' = pc
    /\ UNCHANGED <<globals, args, pre_i, Ae_temp, share_operational, share_embodied,
                   averages, history, sweep, dyn>>

\* calculate_emissions: the averages are computed and returned (0 / 0 raises);
\* calculate_emissions_year_by_year: the four lists are returned
Return ==
    /\ pc = "years"
    /\ year > year_GHG_neutrality
    /\ IF fn = "calculate_emissions"
       THEN IF HorizonLength(year_GHG_neutrality) = 0
            THEN pc' = "raised" /\ UNCHANGED averages
            ELSE /\ average_op_em' = Average(op_em_list, year_GHG_neutrality)
                 /\ average_emb_em' = Average(emb_em_list, year_GHG_neutrality)
                 /\ pc' = "returned"
       ELSE pc' = "returned" /\ UNCHANGED averages
    /\ UNCHANGED <<globals, args, locals, lists, history, sweep, dyn>>

\* calculations_year_by_year.py, after the call: the totals and the averages
Report ==
    /\ pc = "returned"
    /\ fn = "calculate_emissions_year_by_year"
    /\ IF HorizonLength(year_GHG_neutrality) = 0
       THEN pc' = "raised" /\ UNCHANGED averages
       ELSE /\ average_op_em' = Average(op_em_list, year_GHG_neutrality)
            /\ average_emb_em' = Average(emb_em_list, year_GHG_neutrality)
            /\ pc' = "reported"
    /\ UNCHANGED <<globals, args, locals, lists, history, sweep, dyn>>

Next == PreCorrection \/ StartHorizon \/ HorizonYear \/ Return \/ Report

Spec == Init /\ [][Next]_vars

(***************************************************************************)
(* Several calls in one process, with the arguments the sweep of            *)
(* "parallel coordinates.py" passes: every call starts from the module     *)
(* globals as the calls before it left them.  The caller here goes on      *)
(* after a call that raised; the sweep itself, which does not, is          *)
(* SpecSweep below.                                                        *)
(***************************************************************************)
CallGBs == {Deduction + 887}
CallFns == {Q(1, 2)}
CallYears == {StartYear + 1}
CallNewRates == {Zero, Q(1, 10)}
CallRenovationRates == {Q(1, 10)}
CallDemolitionRates == {Zero, Num(1)}

Ended ==
    \/ pc = "raised"
    \/ pc = "reported"
    \/ pc = "returned" /\ fn = "calculate_emissions"

\* what a call was given, what it read and what it gave back
CallRecord ==
    [fn |-> fn, npArgs |-> npArgs, GB |-> GB, Fn |-> Fn,
     year_GHG_neutrality |-> year_GHG_neutrality, rn |-> rn, rr |-> rr, rd |-> rd,
     globals |-> globals, outcome |-> pc,
     lists |-> IF pc = "raised" THEN <<>> ELSE lists,
     averages |-> IF pc = "raised" THEN <<>> ELSE averages]

InitCalls ==
    /\ fn \in Functions
    /\ npArgs \in (IF fn = "calculate_emissions" THEN BOOLEAN ELSE {FALSE})
    /\ Ae_initial \in InitialAreas
    /\ Fb \in {Q(1, 2)}
    /\ Fe \in {Q(1, 4)}
    /\ Fo = Sub(Num(1), Fe)
    /\ GB \in CallGBs
    /\ Fn \in CallFns
    /\ year_GHG_neutrality \in CallYears
    /\ rn \in CallNewRates
    /\ rr \in CallRenovationRates
    /\ rd \in CallDemolitionRates
    /\ pc = "pre"
    /\ Locals0(Ae_initial)
    /\ history = <<>>
    /\ SweepOff
    /\ DynOff

\* the call that ended is recorded and the next call begins
NextCall ==
    /\ Ended
    /\ Len(history) < MaxCalls - 1
    /\ history' = Append(history, CallRecord)
    /\ fn' \in Functions
    /\ npArgs' \in (IF fn' = "calculate_emissions" THEN BOOLEAN ELSE {FALSE})
    /\ GB' \in CallGBs
    /\ Fn' \in CallFns
    /\ year_GHG_neutrality' \in CallYears
    /\ rn' \in CallNewRates
    /\ rr' \in CallRenovationRates
    /\ rd' \in CallDemolitionRates
    /\ pc' = "pre"
    /\ pre_i' = 0
    /\ Ae_temp' = Ae_initial
    /\ Ae_current' = Zero
    /\ year' = StartYear
    /\ share_operational' = Zero
    /\ share_embodied' = Zero
    /\ Ae_list' = <<>>
    /\ Anew_list' = <<>>
    /\ op_em_list' = <<>>
    /\ emb_em_list' = <<>>
    /\ average_op_em' = Zero
    /\ average_emb_em' = Zero
    /\ UNCHANGED <<globals, sweep, dyn>>

NextCalls == Next \/ NextCall

SpecCalls == InitCalls /\ [][NextCalls]_vars

(***************************************************************************)
(* The parameter sweep of "parallel coordinates.py": nested loops over the *)
(* budgets, the allocation factors, the years of neutrality and the three  *)
(* rates call calculate_emissions and append one row per call.  Nothing    *)
(* catches an exception of the call, so it leaves the loops and ends the   *)
(* script.  The model draws the ranges of the loops from small sets.       *)
(***************************************************************************)
SweepBudgets == {<<Deduction + 887>>}
SweepFns == {<<Q(1, 2)>>}
SweepYears == {<<StartYear, StartYear + 1>>, <<StartYear - 1, StartYear>>}
SweepNewRates == {<<Zero, Q(1, 10)>>}
SweepRenovationRates == {<<Q(1, 10)>>}
SweepDemolitionRates == {<<Zero, Q(1, 10)>>, <<Zero, Num(1)>>, <<Q(1, 10), Num(1)>>}

\* the combinations in the order the nested loops run them, the demolition
\* rate varying fastest
Combinations(gbs, fns, ys, rns, rrs, rds) ==
    LET n5 == Len(rds)
        n4 == Len(rrs) * n5
        n3 == Len(rns) * n4
        n2 == Len(ys) * n3
        n1 == Len(fns) * n2
    IN  [k \in 1..(Len(gbs) * n1) |->
            [GB |-> gbs[((k - 1) \div n1) + 1],
             Fn |-> fns[(((k - 1) % n1) \div n2) + 1],
             year_GHG_neutrality |-> ys[(((k - 1) % n2) \div n3) + 1],
             rn |-> rns[(((k - 1) % n3) \div n4) + 1],
             rr |-> rrs[(((k - 1) % n4) \div n5) + 1],
             rd |-> rds[((k - 1) % n5) + 1]]]

\* [temp_goal, prob, fn_label, Fn * 100, year_GHG_neutrality, rn * 100, rr * 100,
\*  rd * 100, op_emissions, emb_emissions]; GB stands for its key (temp_goal, prob)
\* and Fn for its label
Row ==
    <<GB, Fn, Mul(Fn, Num(100)), year_GHG_neutrality, Mul(rn, Num(100)),
      Mul(rr, Num(100)), Mul(rd, Num(100)), average_op_em, average_emb_em>>

InitSweep ==
    /\ fn = "calculate_emissions"
    /\ npArgs \in BOOLEAN
    /\ Ae_initial = Sci(1, 9)
    /\ Fb = Q(1, 2)
    /\ Fe = Q(1, 4)
    /\ Fo = Sub(Num(1), Fe)
    /\ \E gbs \in SweepBudgets, fns \in SweepFns, ys \in SweepYears,
          rns \in SweepNewRates, rrs \in SweepRenovationRates,
          rds \in SweepDemolitionRates :
          scenarios = Combinations(gbs, fns, ys, rns, rrs, rds)
    /\ rows = <<>>
    /\ GB = scenarios[1].GB
    /\ Fn = scenarios[1].Fn
    /\ year_GHG_neutrality = scenarios[1].year_GHG_neutrality
    /\ rn = scenarios[1].rn
    /\ rr = scenarios[1].rr
    /\ rd = scenarios[1].rd
    /\ pc = "pre"
    /\ Locals0(Ae_initial)
    /\ history = <<>>
    /\ DynOff

\* rows.append([...]) after a call that returned, and the next iteration of the
\* loops: the call of the next combination begins
AppendRow ==
    /\ pc = "returned"
    /\ scenarios # <<>>
    /\ rows' = Append(rows, Row)
    /\ scenarios' = Tail(scenarios)
    /\ IF Tail(scenarios) = <<>>
       THEN /\ pc' = "swept"
            /\ UNCHANGED <<GB, Fn, year_GHG_neutrality, rn, rr, rd, locals, lists,
                           averages>>
       ELSE /\ GB' = scenarios[2].GB
            /\ Fn' = scenarios[2].Fn
            /\ year_GHG_neutrality' = scenarios[2].year_GHG_neutrality
            /\ rn' = scenarios[2].rn
            /\ rr' = scenarios[2].rr
            /\ rd' = scenarios[2].rd
            /\ pc' = "pre"
            /\ pre_i' = 0
            /\ Ae_temp' = Ae_initial
            /\ Ae_current' = Zero
            /\ year' = StartYear
            /\ share_operational' = Zero
            /\ share_embodied' = Zero
            /\ Ae_list' = <<>>
            /\ Anew_list' = <<>>
            /\ op_em_list' = <<>>
            /\ emb_em_list' = <<>>
            /\ average_op_em' = Zero
            /\ average_emb_em' = Zero
    /\ UNCHANGED <<globals, fn, npArgs, history, dyn>>

\* an exception of the call leaves the loops: no row for the combination, the
\* combinations after it are not run and the script ends with the traceback
Abort ==
    /\ pc = "raised"
    /\ scenarios # <<>>
    /\ pc' = "aborted"
    /\ scenarios' = Tail(scenarios)
    /\ UNCHANGED <<globals, args, locals, lists, averages, history, rows, dyn>>

NextSweep == PreCorrection \/ StartHorizon \/ HorizonYear \/ Return \/ AppendRow \/ Abort

SpecSweep == InitSweep /\ [][NextSweep]_vars

(***************************************************************************)
(* Dynamic Curve Solver: dynamic_ee_budget.py and dynamic_oe_budget.py.    *)
(* The scripts run top to bottom on their module constants; the model      *)
(* draws the constants (horizon, static budget, ratio, shape functions)    *)
(* from small sets.  A shape function is a cubic c3 x^3 + c2 x^2 + c1 x +  *)
(* c0 with coefficients <<c3, c2, c1, c0>>, as the fit of                  *)
(* dynamic_ee_budget.py is, and scipy's quad is its exact integral.  In    *)
(* dynamic_oe_budget.py f and g go through np.exp and np.sin, so Z and all *)
(* that is computed from it are numpy float64 values.                      *)
(***************************************************************************)
Scripts == {"dynamic_ee_budget", "dynamic_oe_budget"}
Shapes == {<<0, 0, 0, 3>>, <<0, 0, -2, 3>>, <<1, 0, -3, 3>>, <<0, -4, 4, 1>>}
SecondShapes == {<<0, 0, 0, 1>>, <<0, 0, -1, 2>>}
Weights == {Zero, Q(1, 2)}
Ratios == {Q(1, 10), Q(1, 2), Num(1), Num(2)}
BaseBudgets == {Zero, Q(241, 100), Q(386, 100)}

NumpyValues == script = "dynamic_oe_budget"

\* f(x), g(x): the fitted function with coefficients c
Shape(c, x) ==
    Add(Add(Add(Mul(Num(c[1]), Mul(x, Mul(x, x))), Mul(Num(c[2]), Mul(x, x))),
            Mul(Num(c[3]), x)),
        Num(c[4]))

\* (year - T_min) / (T_max - T_min), T_max # T_min
scale_year(yr) == Q(yr - T_min, T_max - T_min)

\* Z(t) = f(x) in dynamic_ee_budget.py, (1 - w) * f(x) + w * g(x) in dynamic_oe_budget.py
Z(yr) ==
    IF script = "dynamic_ee_budget"
    THEN Shape(f_coef, scale_year(yr))
    ELSE Add(Mul(Sub(Num(1), w), Shape(f_coef, scale_year(yr))),
             Mul(w, Shape(g_coef, scale_year(yr))))

\* the coefficients of Z as a polynomial in x
ZCoef(i) ==
    IF script = "dynamic_ee_budget"
    THEN Num(f_coef[i])
    ELSE Add(Mul(Sub(Num(1), w), Num(f_coef[i])), Mul(w, Num(g_coef[i])))

\* quad(p, T_min, T_max) for p(t) = c[1] x^3 + c[2] x^2 + c[3] x + c[4], x = scale_year(t)
quad(c) ==
    Mul(Num(T_max - T_min),
        Add(Add(Add(Mul(c[1], Q(1, 4)), Mul(c[2], Q(1, 3))), Mul(c[3], Q(1, 2))), c[4]))

\* fault model: the boundary condition solved without its minus sign
numerator_NoMinus == Sub(Z_2045, Mul(factor_2025_2045, Z_2025))

\* numerator = -(Z_2045 - factor_2025_2045 * Z_2025)
numerator == Neg(Sub(Z_2045, Mul(factor_2025_2045, Z_2025)))

\* a_in_terms_of_b(b) = b * numerator / (1 - factor_2025_2045)
a_in_terms_of_b(b_val) ==
    Div(Mul(b_val, numerator), Sub(Num(1), factor_2025_2045), NumpyValues)

\* fault model: the constant part integrated over T_max - T_min + 1 years
denom_InclusiveYears ==
    Add(Mul(Div(numerator, Sub(Num(1), factor_2025_2045), NumpyValues),
            Num(T_max - T_min + 1)),
        I_Z)

\* denom = numerator / (1 - factor_2025_2045) * (T_max - T_min) + I_Z
denom ==
    Add(Mul(Div(numerator, Sub(Num(1), factor_2025_2045), NumpyValues),
            Num(T_max - T_min)),
        I_Z)

b_sol == Div(I_constant, denom, NumpyValues)
a_sol == a_in_terms_of_b(b_sol)

\* dynamic(t) = a + b * Z(t)
dynamic(yr) == Add(a, Mul(b, Z(yr)))

RECURSIVE Series(_, _)
Series(from, to) ==
    IF from > to THEN <<>> ELSE <<dynamic(from)>> \o Series(from + 1, to)

\* the static budget scripts are not part of the run
StaticOff ==
    /\ fn = "calculate_emissions_year_by_year"
    /\ npArgs = FALSE
    /\ Ae_initial = Sci(1, 9)
    /\ Fb = Q(1, 2)
    /\ Fe = Q(1, 4)
    /\ Fo = Sub(Num(1), Fe)
    /\ GB = Deduction
    /\ Fn = Q(1, 2)
    /\ year_GHG_neutrality = StartYear
    /\ rn = Zero
    /\ rr = Zero
    /\ rd = Zero
    /\ Locals0(Ae_initial)
    /\ history = <<>>
    /\ SweepOff

InitDyn ==
    /\ StaticOff
    /\ pc = "off"
    /\ script \in Scripts
    /\ dpc = "setup"
    /\ T_min = StartYear
    /\ T_max \in StartYear..(StartYear + MaxHorizon)
    /\ x_base \in BaseBudgets
    /\ f_coef \in Shapes
    /\ g_coef \in (IF NumpyValues THEN SecondShapes ELSE {<<0, 0, 0, 0>>})
    /\ w \in (IF NumpyValues THEN Weights ELSE {Zero})
    /\ factor_2025_2045 \in Ratios
    /\ I_constant = Zero
    /\ Z_2025 = Zero
    /\ Z_2045 = Zero
    /\ I_Z = Zero
    /\ a = Zero
    /\ b = Zero
    /\ ratio_2045_2025 = Zero
    /\ I_dynamic = Zero
    /\ dyn_vals = <<>>

\* I_constant = x_base * (T_max - T_min); Z_2025 = Z(T_min); Z_2045 = Z(T_max);
\* I_Z = quad(Z_of_t, T_min, T_max).  scale_year divides by T_max - T_min
Setup ==
    /\ dpc = "setup"
    /\ IF T_max = T_min
       THEN dpc' = "raised" /\ UNCHANGED setup
       ELSE /\ I_constant' = Mul(x_base, Num(T_max - T_min))
            /\ Z_2025' = Z(T_min)
            /\ Z_2045' = Z(T_max)
            /\ I_Z' = quad(<<ZCoef(1), ZCoef(2), ZCoef(3), ZCoef(4)>>)
            /\ dpc' = "solve"
    /\ UNCHANGED <<static, config, solved, verified, dyn_vals>>

\* a, b = solve_for_a_b()
Solve ==
    /\ dpc = "solve"
    /\ IF \/ Raises(Sub(Num(1), factor_2025_2045), NumpyValues)
          \/ Raises(denom, NumpyValues)
       THEN dpc' = "raised" /\ UNCHANGED solved
       ELSE a' = a_sol /\ b' = b_sol /\ dpc' = "verify"
    /\ UNCHANGED <<static, config, setup, verified, dyn_vals>>

\* ratio_2045_2025 = dynamic(T_max) / dynamic(T_min); I_dynamic = quad(dynamic, ...);
\* both are printed, neither is compared with anything
Verify ==
    /\ dpc = "verify"
    /\ IF Raises(dynamic(T_min), NumpyValues)
       THEN dpc' = "raised" /\ UNCHANGED verified
       ELSE /\ ratio_2045_2025' = Div(dynamic(T_max), dynamic(T_min), NumpyValues)
            /\ I_dynamic' = quad(<<Mul(b, ZCoef(1)), Mul(b, ZCoef(2)), Mul(b, ZCoef(3)),
                                   Add(a, Mul(b, ZCoef(4)))>>)
            /\ dpc' = "series"
    /\ UNCHANGED <<static, config, setup, solved, dyn_vals>>

\* years = np.arange(T_min, T_max + 1); dyn_vals = [dynamic(y) for y in years]
MakeSeries ==
    /\ dpc = "series"
    /\ dyn_vals' = Series(T_min, T_max)
    /\ dpc' = "done"
    /\ UNCHANGED <<static, config, setup, solved, verified>>

NextDyn == Setup \/ Solve \/ Verify \/ MakeSeries

SpecDyn == InitDyn /\ [][NextDyn]_vars

(***************************************************************************)
(* The hand-off between the scripts.  calculations_year_by_year.py prints  *)
(* its two averages with two decimals; the dynamic scripts carry the       *)
(* printed numbers as x_e_base and x_op_base and the same horizon as       *)
(* T_min and T_max.                                                        *)
(***************************************************************************)
PipelineFns == {Q(1, 100), Q(1, 50)}
PipelineNewRates == {Zero, Q(1, 2)}
PipelineShapes == {<<0, 0, -2, 3>>, <<1, 0, -3, 3>>}
PipelineRatios == {Q(1, 10), Q(1, 2)}

\* numerator and denominator of a finite number
IntNum(x) ==
    x.n * Pow(2, IF x.t > 0 THEN x.t ELSE 0) * Pow(5, IF x.f > 0 THEN x.f ELSE 0)
IntDen(x) ==
    x.d * Pow(2, IF x.t < 0 THEN -x.t ELSE 0) * Pow(5, IF x.f < 0 THEN -x.f ELSE 0)

\* the nearest integer, a tie going to the even one
RoundHalfEven(num, den) ==
    LET q == num \div den
        r == num - q * den
    IN  IF 2 * r < den THEN q
        ELSE IF 2 * r > den THEN q + 1
        ELSE IF q % 2 = 0 THEN q ELSE q + 1

\* f"{x:.2f}" read back as a literal
Format2(x) ==
    LET y == Mul(x, Num(100))
    IN  Q(RoundHalfEven(IntNum(y), IntDen(y)), 100)

InitPipeline ==
    /\ fn = "calculate_emissions_year_by_year"
    /\ npArgs = FALSE
    /\ Ae_initial \in InitialAreas
    /\ Fb = Q(1, 2)
    /\ Fe \in FeValues
    /\ Fo = Sub(Num(1), Fe)
    /\ GB = Deduction + 887
    /\ Fn \in PipelineFns
    /\ year_GHG_neutrality \in StartYear..(StartYear + MaxHorizon)
    /\ rn \in PipelineNewRates
    /\ rr = Q(1, 2)
    /\ rd = Zero
    /\ pc = "pre"
    /\ Locals0(Ae_initial)
    /\ history = <<>>
    /\ SweepOff
    /\ script \in Scripts
    /\ dpc = "off"
    /\ T_min = StartYear
    /\ T_max = StartYear
    /\ x_base = Zero
    /\ f_coef \in PipelineShapes
    /\ g_coef \in (IF NumpyValues THEN SecondShapes ELSE {<<0, 0, 0, 0>>})
    /\ w \in (IF NumpyValues THEN {Q(1, 2)} ELSE {Zero})
    /\ factor_2025_2045 \in PipelineRatios
    /\ I_constant = Zero
    /\ Z_2025 = Zero
    /\ Z_2045 = Zero
    /\ I_Z = Zero
    /\ a = Zero
    /\ b = Zero
    /\ ratio_2045_2025 = Zero
    /\ I_dynamic = Zero
    /\ dyn_vals = <<>>

\* T_min = 2025; T_max = 2045; x_e_base = 2.41 (x_op_base = 3.86): the horizon
\* of the static script and the average it printed
Configure ==
    /\ pc = "reported"
    /\ dpc = "off"
    /\ T_min' = StartYear
    /\ T_max' = year_GHG_neutrality
    /\ x_base' = Format2(IF script = "dynamic_ee_budget"
                         THEN average_emb_em ELSE average_op_em)
    /\ dpc' = "setup"
    /\ UNCHANGED <<static, script, f_coef, g_coef, w, factor_2025_2045,
                   setup, solved, verified, dyn_vals>>

NextPipeline == Next \/ Configure \/ NextDyn

SpecPipeline == InitPipeline /\ [][NextPipeline]_vars

(***************************************************************************)
(* Properties of the static budget.                                        *)
(***************************************************************************)
Returned == pc \in {"returned", "reported"}

\* C1: for every pair of consecutive horizon years the recorded total area is
\* area[y] = area[y-1] + rate_new * area[y-1] - rate_demolition * area[y-1]
C1_AreaRecurrence ==
    \A i \in 2..Len(Ae_list) :
        Ae_list[i] = Sub(Add(Ae_list[i - 1], Mul(rn, Ae_list[i - 1])),
                         Mul(rd, Ae_list[i - 1]))

\* a call that returned a horizon of at least two years in which the area changed
C1_Witness ==
    /\ Returned
    /\ Len(Ae_list) >= 2
    /\ Ae_list[2] # Ae_list[1]
    /\ rn # Zero
    /\ rd # Zero

\* C4: every recorded operational intensity is budget / horizon length / total
\* area of the year (post-update), every embodied intensity is budget / horizon
\* length / new_active of the year / 50, the horizon length being
\* year_GHG_neutrality + 1 - 2025, the number of years recorded on return
C4_Intensities ==
    LET H == year_GHG_neutrality + 1 - 2025 IN
    /\ Len(op_em_list) = Len(Ae_list)
    /\ Len(emb_em_list) = Len(Anew_list)
    /\ \A i \in 1..Len(op_em_list) :
          ~IsZero(Ae_list[i]) =>
             op_em_list[i] = Quot(Quot(share_operational, Num(H)), Ae_list[i])
    /\ \A i \in 1..Len(emb_em_list) :
          ~IsZero(Anew_list[i]) =>
             emb_em_list[i] =
                Quot(Quot(Quot(share_embodied, Num(H)), Anew_list[i]), Num(50))
    /\ (Returned /\ H >= 0) => Len(op_em_list) = H /\ Len(emb_em_list) = H

\* a call that returned two years of non-zero intensities
C4_Witness ==
    /\ Returned
    /\ Len(op_em_list) = 2
    /\ \A i \in 1..2 : IsFin(op_em_list[i]) /\ Sign(op_em_list[i]) > 0
    /\ \A i \in 1..2 : IsFin(emb_em_list[i]) /\ Sign(emb_em_list[i]) > 0
    /\ op_em_list[1] # op_em_list[2]

\* C5: no intensity is ever recorded for a total area or a new_active area that
\* is zero or negative (the call fails with a division-by-zero error instead)
C5_NoIntensityForNonPositiveArea ==
    \A i \in 1..Len(op_em_list) : Sign(Ae_list[i]) > 0 /\ Sign(Anew_list[i]) > 0

\* a share outside [0,1], a negative rate, a horizon that does not end after its start
InvalidParameter ==
    \/ \E x \in {Fn, Fb, Fe, Fo} : Less(x, Zero) \/ Less(Num(1), x)
    \/ \E r \in {rn, rr, rd} : Less(r, Zero)
    \/ year_GHG_neutrality <= StartYear

\* C7: a share outside [0,1], a negative rate or a horizon that ends before it
\* starts stops the calculation before the first step of the pre-correction
\* loop, and no yearly series and no averages are produced
C7_FailsFast ==
    InvalidParameter =>
        /\ pre_i = 0
        /\ pc \notin {"years", "returned", "reported"}
        /\ lists = <<<<>>, <<>>, <<>>, <<>>>>

\* C8: the category budgets in kg are
\* (GB - 185) / 0.887 * Fn * Fb * category share * 1e12, and the operational and
\* the embodied budget add up to the sector budget GB_GHG * Fn * Fb * 1e12
C8_Budgets ==
    pc # "pre" =>
        LET ghg == Quot(Num(GB - 185), Q(887, 1000))
            sector == Mul(Mul(Mul(ghg, Fn), Fb), Sci(1, 12))
        IN  /\ share_operational = Mul(Mul(Mul(Mul(ghg, Fn), Fb), Fo), Sci(1, 12))
            /\ share_embodied = Mul(Mul(Mul(Mul(ghg, Fn), Fb), Fe), Sci(1, 12))
            /\ Add(share_operational, share_embodied) = sector
            /\ Add(Fe, Fo) = Num(1)

\* budgets set up from a non-zero global budget with unequal category shares
C8_Witness ==
    /\ pc = "years"
    /\ Sign(share_operational) > 0
    /\ Sign(share_embodied) > 0
    /\ share_operational # share_embodied

\* C10: two calls with identical inputs give identical results whatever ran in
\* between, and no call changes the globals (Ae_initial, Fb, Fe, Fo) a later
\* call reads
SameInputs(c1, c2) ==
    /\ c1.fn = c2.fn /\ c1.npArgs = c2.npArgs /\ c1.GB = c2.GB /\ c1.Fn = c2.Fn
    /\ c1.year_GHG_neutrality = c2.year_GHG_neutrality
    /\ c1.rn = c2.rn /\ c1.rr = c2.rr /\ c1.rd = c2.rd

SameResults(c1, c2) ==
    c1.outcome = c2.outcome /\ c1.lists = c2.lists /\ c1.averages = c2.averages

CallsRepeat ==
    /\ \A i, j \in 1..Len(history) :
          SameInputs(history[i], history[j]) => SameResults(history[i], history[j])
    /\ Ended =>
          \A i \in 1..Len(history) :
              SameInputs(history[i], CallRecord) => SameResults(history[i], CallRecord)

C10_CallsIndependent == [][globals' = globals]_vars /\ []CallsRepeat

\* a third call that ended with the inputs of the first, after a different second
C10_Witness ==
    /\ Ended
    /\ pc = "returned"
    /\ Len(history) = 2
    /\ SameInputs(history[1], CallRecord)
    /\ ~SameInputs(history[1], history[2])
    /\ history[2].outcome = "raised"

\* C11: without demolition (rate_demolition = 0, rate_new >= 0, a positive
\* initial area) the recorded total area never decreases from one horizon year
\* to the next, and its first value is at least the initial area
C11_AreaNonDecreasing ==
    (IsZero(rd) /\ ~Less(rn, Zero) /\ Sign(Ae_initial) > 0) =>
        /\ \A i \in 2..Len(Ae_list) : ~Less(Ae_list[i], Ae_list[i - 1])
        /\ Len(Ae_list) >= 1 => ~Less(Ae_list[1], Ae_initial)

\* a returned horizon of two years without demolition in which the area grew
C11_Witness ==
    /\ Returned
    /\ IsZero(rd)
    /\ Less(Zero, rn)
    /\ Len(Ae_list) >= 2
    /\ Less(Ae_initial, Ae_list[1])
    /\ Less(Ae_list[1], Ae_list[2])

\* C12: with rate_new > rate_demolition, a positive initial area and a positive
\* operational budget, the recorded total area strictly increases from year to
\* year, and the operational intensity is positive in every year and strictly
\* decreases from year to year
C12_GrowthLowersIntensity ==
    (Less(rd, rn) /\ Sign(Ae_initial) > 0 /\ Sign(share_operational) > 0) =>
        /\ \A i \in 2..Len(Ae_list) : Less(Ae_list[i - 1], Ae_list[i])
        /\ \A i \in 1..Len(op_em_list) :
              IsFin(op_em_list[i]) /\ Less(Zero, op_em_list[i])
        /\ \A i \in 2..Len(op_em_list) : Less(op_em_list[i], op_em_list[i - 1])

\* a returned horizon of two years with new construction above a non-zero
\* demolition and a positive budget
C12_Witness ==
    /\ Returned
    /\ Less(rd, rn)
    /\ Less(Zero, rd)
    /\ Sign(share_operational) > 0
    /\ Len(op_em_list) >= 2
    /\ Less(op_em_list[2], op_em_list[1])

\* C14: in each horizon year the area is updated once by An - Ad with An and Ad
\* taken from the area before the update, the recorded new_active is
\* (rate_new + rate_renovation) * that pre-update area, and the recorded total
\* area, which divides the year's operational budget, is the area after the
\* update, in the first horizon year too
C14_RatesOnPreUpdateArea ==
    [][Len(Ae_list') = Len(Ae_list) + 1 =>
          LET pre == Ae_current
              post == Ae_current'
              k == Len(Ae_list')
              H == year_GHG_neutrality + 1 - 2025
          IN  /\ Len(Ae_list) = 0 => pre = Ae_temp
              /\ post = Add(pre, Sub(Mul(rn, pre), Mul(rd, pre)))
              /\ Len(Anew_list') = k
              /\ Anew_list'[k] = Mul(Add(rn, rr), pre)
              /\ Ae_list'[k] = post
              /\ Len(op_em_list') = k
              /\ ~IsZero(post) =>
                    op_em_list'[k] = Quot(Quot(share_operational, Num(H)), post)
      ]_vars

\* a first horizon year recorded with all three rates at work: the total area
\* is the updated one, the new_active area comes from the area before
C14_Witness ==
    /\ Len(Ae_list) >= 1
    /\ ~IsZero(rn) /\ ~IsZero(rr) /\ ~IsZero(rd)
    /\ Ae_list[1] # Ae_temp
    /\ Anew_list[1] = Mul(Add(rn, rr), Ae_temp)
    /\ Anew_list[1] # Mul(Add(rn, rr), Ae_list[1])

\* the area after k years of new construction and demolition
RECURSIVE WarmedUp(_, _)
WarmedUp(area, k) ==
    IF k = 0 THEN area
    ELSE LET prev == WarmedUp(area, k - 1)
         IN  Add(prev, Sub(Mul(rn, prev), Mul(rd, prev)))

\* C15: the warm-up runs exactly 2025 - 2021 = 4 iterations of
\* area <- area + rate_new * area - rate_demolition * area from the initial
\* area before any horizon year, records no series entry and does not use the
\* renovation rate; the horizon starts from the resulting area, and Ae_initial
\* is left as it was
C15_WarmUp ==
    /\ [](/\ pre_i \in 0..4
          /\ Ae_temp = WarmedUp(Ae_initial, pre_i)
          /\ pc = "pre" => lists = <<<<>>, <<>>, <<>>, <<>>>>
          /\ pc # "pre" => pre_i = 4
          /\ Len(Ae_list) >= 1 =>
                Ae_list[1] = WarmedUp(Ae_initial, 5))
    /\ [][Ae_initial' = Ae_initial /\ rr' = rr]_vars

\* the first horizon year recorded after a warm-up that changed the area, with
\* a renovation rate at work
C15_Witness ==
    /\ pc = "years"
    /\ Len(Ae_list) = 1
    /\ pre_i = 4
    /\ ~IsZero(rr)
    /\ Ae_temp # Ae_initial
    /\ Ae_list[1] # Ae_temp

\* C16 (as the code has it): the warm-up and the horizon loop apply both rates
\* to the area before the update, so one warm-up step and one horizon step from
\* the same area give the same updated total area; the first recorded area is
\* what a fifth warm-up step would have produced
C16_SameUpdate ==
    /\ \A x \in {Ae_initial, Ae_temp} :
          PreCorrectionStep(x, rn, rd) = UpdatedArea(x, rn, rd)
    /\ Len(Ae_list) >= 1 => Ae_list[1] = PreCorrectionStep(Ae_temp, rn, rd)

\* the first horizon year recorded after a warm-up with construction and
\* demolition both at work
C16_Witness ==
    /\ pc = "years"
    /\ Len(Ae_list) = 1
    /\ ~IsZero(rn) /\ ~IsZero(rd) /\ rn # rd
    /\ Ae_temp # Ae_initial
    /\ Ae_list[1] = PreCorrectionStep(Ae_temp, rn, rd)

\* C16 (as stated): with construction and demolition both at work, one warm-up
\* step and one horizon step started from the same area do not give the same
\* updated total area
C16_StepsDiffer ==
    (Len(Ae_list) >= 1 /\ ~IsZero(rn) /\ ~IsZero(rd)) =>
        Ae_list[1] # PreCorrectionStep(Ae_temp, rn, rd)

\* the emissions of the recorded years: the sum of intensity * area
RECURSIVE Emitted(_, _)
Emitted(intensity, area) ==
    IF intensity = <<>> THEN Zero
    ELSE Add(Emitted(SubSeq(intensity, 1, Len(intensity) - 1),
                     SubSeq(area, 1, Len(area) - 1)),
             Mul(intensity[Len(intensity)], area[Len(area)]))

\* C17: the returned series spend exactly the category budgets: the sum over
\* the horizon years of operational intensity * total area is the operational
\* budget and the sum of embodied intensity * new_active * 50 is the embodied
\* budget (for a horizon of at least one year and non-zero areas); the four
\* lists hold one entry per year from 2025 to year_GHG_neutrality, appended in
\* ascending year order
C17_BudgetSpent ==
    LET H == year_GHG_neutrality + 1 - 2025 IN
    /\ pc = "years" =>
          /\ year = 2025 + Len(Ae_list)
          /\ year <= year_GHG_neutrality + 1 \/ Len(Ae_list) = 0
    /\ Len(Anew_list) = Len(Ae_list)
    /\ Len(op_em_list) = Len(Ae_list)
    /\ Len(emb_em_list) = Len(Ae_list)
    /\ Returned => Len(Ae_list) = (IF H >= 0 THEN H ELSE 0)
    /\ (/\ Returned
        /\ H >= 1
        /\ \A i \in 1..Len(Ae_list) : ~IsZero(Ae_list[i]) /\ ~IsZero(Anew_list[i])) =>
          /\ Emitted(op_em_list, Ae_list) = share_operational
          /\ Mul(Emitted(emb_em_list, Anew_list), Num(50)) = share_embodied

\* a returned horizon of two years with positive budgets and a changing area
C17_Witness ==
    /\ Returned
    /\ Len(Ae_list) = 2
    /\ Sign(share_operational) > 0
    /\ Sign(share_embodied) > 0
    /\ Ae_list[1] # Ae_list[2]
    /\ ~IsZero(Anew_list[1])
    /\ Emitted(op_em_list, Ae_list) = share_operational

\* C13: a combination whose calculation fails does not end the sweep: when the
\* sweep is over every combination has been run, and no row comes from a
\* failed calculation (every row holds two numbers)
C13_SweepContinues ==
    /\ pc \in {"swept", "aborted"} => scenarios = <<>>
    /\ \A i \in 1..Len(rows) : IsFin(rows[i][8]) /\ IsFin(rows[i][9])

(***************************************************************************)
(* Properties of the dynamic budget.                                       *)
(***************************************************************************)
Solved == dpc \in {"verify", "series", "done"}
Verified == dpc \in {"series", "done"}
Numbers == IsFin(a) /\ IsFin(b)

\* C2: when solve_for_a_b returns numbers (a, b), the curve a + b * Z(t) ends
\* at the ratio times its start, dynamic(T_max) = factor_2025_2045 *
\* dynamic(T_min), and the ratio the script prints is factor_2025_2045
C2_EndStartRatio ==
    (Solved /\ Numbers) =>
        /\ dynamic(T_max) = Mul(factor_2025_2045, dynamic(T_min))
        /\ (Verified /\ IsFin(ratio_2045_2025)) => ratio_2045_2025 = factor_2025_2045

C2_Witness ==
    /\ Verified
    /\ Numbers
    /\ ~IsZero(a)
    /\ ~IsZero(b)
    /\ Z_2025 # Z_2045
    /\ ratio_2045_2025 = factor_2025_2045

\* C3: when solve_for_a_b returns numbers (a, b), they conserve the budget,
\* a * (T_max - T_min) + b * I_Z = I_constant, and the integral of the curve
\* over the horizon is I_constant
C3_BudgetConserved ==
    (Solved /\ Numbers) =>
        /\ Add(Mul(a, Num(T_max - T_min)), Mul(b, I_Z)) = I_constant
        /\ Verified => I_dynamic = I_constant

C3_Witness ==
    /\ Verified
    /\ Numbers
    /\ ~IsZero(a)
    /\ ~IsZero(b)
    /\ ~IsZero(I_constant)
    /\ I_dynamic = I_constant

\* the closed form divides by zero
Singular ==
    IF IsZero(Sub(Num(1), factor_2025_2045)) THEN TRUE ELSE IsZero(denom)

\* C6: a singular denominator or a failed verification of the ratio or of the
\* integral stops the script: no (a, b) and no series are produced
C6_UnsolvableConstraint ==
    /\ Solved => ~Singular
    /\ Verified => (ratio_2045_2025 = factor_2025_2045 /\ I_dynamic = I_constant)
    /\ dyn_vals # <<>> => Numbers

\* C9: the target handed to the solver is the static average times the number
\* of years the static script divides the budget by and averages over (up to
\* the two decimals of the printed average)
C9_TargetIsAverageTimesHorizon ==
    (pc = "reported" /\ dpc \in {"solve", "verify", "series", "done"}) =>
        LET average == IF script = "dynamic_ee_budget"
                       THEN average_emb_em ELSE average_op_em
            years == Num(HorizonLength(year_GHG_neutrality))
            diff == Sub(I_constant, Mul(average, years))
            tolerance == Mul(Q(1, 200), years)
        IN  ~Less(tolerance, diff) /\ ~Less(tolerance, Neg(diff))

====
